---- MODULE Spec2Model ----
(***************************************************************************)
(* IPMI fan controller (src/main.py): the control cycle auto_config, the   *)
(* gateway calls it makes through run_ipmitool, the night-limit window,    *)
(* the temperature policy and the interval scheduler set up by main.       *)
(*                                                                         *)
(* Text is a sequence of one-character strings.  A Python float that was   *)
(* read from decimal text is the exact decimal [m |-> mantissa, k |->      *)
(* number of fraction digits], value m / 10^k.  None is <<>> and an        *)
(* integer v held in an optional is <<v>>.  A call that raises ValueError  *)
(* returns [ok |-> FALSE]; one that returns v returns [ok |-> TRUE,        *)
(* val |-> v].                                                             *)
(***************************************************************************)
EXTENDS Integers, Sequences, FiniteSets, TLC

VARIABLES
    cfg,              \* the module-level configuration constants (lines 29-59)
    _last_set_speed,  \* line 75: None or the last attempted speed
    mainPc,           \* where the main thread is in main()
    frame,            \* per thread: the auto_config call it is executing
    lastTick,         \* what the scheduler did with its latest timer tick
    prev,             \* record of the most recently finished cycle
    prev2,            \* record of the cycle finished before prev
    call,             \* function application under test (function specification)
    ret,              \* its result
    exitCmds          \* gateway calls made by the exit handler of main

vars == <<cfg, _last_set_speed, mainPc, frame, lastTick, prev, prev2, call, ret, exitCmds>>

-----------------------------------------------------------------------------
(* Program constants *)

MIN_PERCENT == 0
MAX_PERCENT == 100

\* threads of the scheduler's executor pool
MaxWorkers == 2

\* variant: the job's runs are limited by the pool only
max_instances_pool == MaxWorkers

\* max_instances=1 of the interval job
max_instances == 1

-----------------------------------------------------------------------------
(* Optionals and results *)

None == <<>>
Some(v) == <<v>>

Raised == [ok |-> FALSE]
Ok(v) == [ok |-> TRUE, val |-> v]

-----------------------------------------------------------------------------
(* Text *)

Digits == <<"0", "1", "2", "3", "4", "5", "6", "7", "8", "9">>

IsDigit(c) == \E i \in 1..10 : Digits[i] = c

DigitVal(c) == (CHOOSE i \in 1..10 : Digits[i] = c) - 1

Whitespace == {" ", "\t", "\n", "\r"}

RECURSIVE Pow10(_)
Pow10(k) == IF k = 0 THEN 1 ELSE 10 * Pow10(k - 1)

\* value of a non-empty run of decimal digits
RECURSIVE DigitsVal(_)
DigitsVal(s) ==
    IF Len(s) = 0 THEN 0
    ELSE 10 * DigitsVal(SubSeq(s, 1, Len(s) - 1)) + DigitVal(s[Len(s)])

AllDigits(s) == Len(s) > 0 /\ \A i \in 1..Len(s) : IsDigit(s[i])

\* str.strip(): drop leading and trailing whitespace
RECURSIVE LStrip(_)
LStrip(s) ==
    IF Len(s) > 0 /\ s[1] \in Whitespace THEN LStrip(Tail(s)) ELSE s

RECURSIVE RStrip(_)
RStrip(s) ==
    IF Len(s) > 0 /\ s[Len(s)] \in Whitespace
    THEN RStrip(SubSeq(s, 1, Len(s) - 1)) ELSE s

Strip(s) == RStrip(LStrip(s))

\* str.split(sep) with a one-character separator: count(sep) + 1 parts
RECURSIVE Split(_, _)
Split(s, sep) ==
    IF \A i \in 1..Len(s) : s[i] # sep THEN <<s>>
    ELSE LET i == CHOOSE j \in 1..Len(s) :
                      s[j] = sep /\ \A h \in 1..(j - 1) : s[h] # sep
         IN  <<SubSeq(s, 1, i - 1)>> \o Split(SubSeq(s, i + 1, Len(s)), sep)

\* int(s): surrounding whitespace, an optional sign, one or more digits
int(s) ==
    LET t    == Strip(s)
        sign == Len(t) > 0 /\ t[1] \in {"-", "+"}
        body == IF sign THEN Tail(t) ELSE t
    IN  IF ~AllDigits(body) THEN Raised
        ELSE IF sign /\ t[1] = "-" THEN Ok(0 - DigitsVal(body))
        ELSE Ok(DigitsVal(body))

-----------------------------------------------------------------------------
(* Decimal values *)

Float(m, k) == [m |-> m, k |-> k]

\* f >= n, f > n, f < n for an integer n
FloatGeInt(f, n) == f.m >= n * Pow10(f.k)
FloatGtInt(f, n) == f.m > n * Pow10(f.k)
FloatLtInt(f, n) == f.m < n * Pow10(f.k)

\* a > b for two decimals
FloatGt(a, b) == a.m * Pow10(b.k) > b.m * Pow10(a.k)

-----------------------------------------------------------------------------
(* set_speed: range correction and payload encoding *)

\* variant: only the lower correction
clamp_lower_only(percent) ==
    IF percent < MIN_PERCENT THEN MIN_PERCENT ELSE percent

clamp(percent) ==
    LET p1 == IF percent < MIN_PERCENT THEN MIN_PERCENT ELSE percent
    IN  IF p1 > MAX_PERCENT THEN MAX_PERCENT ELSE p1

HexDigits == <<"0", "1", "2", "3", "4", "5", "6", "7", "8", "9",
               "a", "b", "c", "d", "e", "f">>

\* format(n, "x") for n >= 0
RECURSIVE HexStr(_)
HexStr(n) ==
    IF n < 16 THEN <<HexDigits[n + 1]>>
    ELSE HexStr(n \div 16) \o <<HexDigits[(n % 16) + 1]>>

\* f"0x{percent:02x}"
hex_byte(percent) ==
    LET h == HexStr(percent)
    IN  <<"0", "x">> \o (IF Len(h) < 2 THEN <<"0">> \o h ELSE h)

-----------------------------------------------------------------------------
(* Temperature policy *)

\* variant: a rule matches only above its bound
RECURSIVE FirstRuleStrict(_, _, _)
FirstRuleStrict(temp, rules, i) ==
    IF i > Len(rules) THEN rules[Len(rules)][2]
    ELSE IF FloatGtInt(temp, rules[i][1]) THEN rules[i][2]
    ELSE FirstRuleStrict(temp, rules, i + 1)

RECURSIVE FirstRule(_, _, _)
FirstRule(temp, rules, i) ==
    IF i > Len(rules) THEN rules[Len(rules)][2]
    ELSE IF FloatGeInt(temp, rules[i][1]) THEN rules[i][2]
    ELSE FirstRule(temp, rules, i + 1)

choose_speed_by_temp(temp) == FirstRule(temp, cfg.TEMP_SPEED_RULES, 1)

\* max(temps) of a non-empty list: the first of the largest elements
RECURSIVE MaxFrom(_, _, _)
MaxFrom(temps, i, best) ==
    IF i > Len(temps) THEN best
    ELSE MaxFrom(temps, i + 1, IF FloatGt(temps[i], best) THEN temps[i] ELSE best)

\* variant: the first reading
first_reading(temps) == temps[1]

max(temps) == MaxFrom(temps, 2, temps[1])

-----------------------------------------------------------------------------
(* Night window *)

parse_hhmm(s) ==
    LET parts == Split(s, ":")
    IN  IF Len(parts) # 2 THEN Raised
        ELSE LET hour   == int(parts[1])
                 minute == int(parts[2])
             IN  IF hour.ok /\ minute.ok THEN Ok(<<hour.val, minute.val>>)
                 ELSE Raised

\* variant: the end of the window belongs to it
is_in_time_window_closed(now, start_str, end_str) ==
    LET s == parse_hhmm(start_str)
        e == parse_hhmm(end_str)
    IN  IF ~s.ok \/ ~e.ok THEN Raised
        ELSE LET start_minutes == s.val[1] * 60 + s.val[2]
                 end_minutes   == e.val[1] * 60 + e.val[2]
                 now_minutes   == now.hour * 60 + now.minute
             IN  IF start_minutes = end_minutes THEN Ok(TRUE)
                 ELSE IF start_minutes < end_minutes
                      THEN Ok(start_minutes <= now_minutes /\ now_minutes <= end_minutes)
                 ELSE Ok(now_minutes >= start_minutes \/ now_minutes <= end_minutes)

\* now is [hour |-> 0..23, minute |-> 0..59]
is_in_time_window(now, start_str, end_str) ==
    LET s == parse_hhmm(start_str)
        e == parse_hhmm(end_str)
    IN  IF ~s.ok \/ ~e.ok THEN Raised
        ELSE LET start_minutes == s.val[1] * 60 + s.val[2]
                 end_minutes   == e.val[1] * 60 + e.val[2]
                 now_minutes   == now.hour * 60 + now.minute
             IN  IF start_minutes = end_minutes THEN Ok(TRUE)
                 ELSE IF start_minutes < end_minutes
                      THEN Ok(start_minutes <= now_minutes /\ now_minutes < end_minutes)
                 ELSE Ok(now_minutes >= start_minutes \/ now_minutes < end_minutes)

\* variant: inside the window the cap is the speed
apply_night_limit_floor(speed, now) ==
    IF ~cfg.NIGHT_LIMIT_ENABLED THEN Ok(speed)
    ELSE LET w == is_in_time_window(now, cfg.NIGHT_START, cfg.NIGHT_END)
         IN  IF ~w.ok THEN Raised
             ELSE IF w.val THEN Ok(cfg.NIGHT_MAX_PERCENT)
             ELSE Ok(speed)

\* variant: the test of the enable flag is inverted
apply_night_limit_inverted(speed, now) ==
    IF cfg.NIGHT_LIMIT_ENABLED THEN Ok(speed)
    ELSE LET w == is_in_time_window(now, cfg.NIGHT_START, cfg.NIGHT_END)
         IN  IF ~w.ok THEN Raised
             ELSE IF w.val /\ speed > cfg.NIGHT_MAX_PERCENT
                  THEN Ok(cfg.NIGHT_MAX_PERCENT)
             ELSE Ok(speed)

\* now is the value datetime.now() returns inside the call
apply_night_limit(speed, now) ==
    IF ~cfg.NIGHT_LIMIT_ENABLED THEN Ok(speed)
    ELSE LET w == is_in_time_window(now, cfg.NIGHT_START, cfg.NIGHT_END)
         IN  IF ~w.ok THEN Raised
             ELSE IF w.val /\ speed > cfg.NIGHT_MAX_PERCENT
                  THEN Ok(cfg.NIGHT_MAX_PERCENT)
             ELSE Ok(speed)

-----------------------------------------------------------------------------
(* Sensor parser *)

UpperCase == <<"A", "B", "C", "D", "E", "F", "G", "H", "I", "J", "K", "L", "M",
               "N", "O", "P", "Q", "R", "S", "T", "U", "V", "W", "X", "Y", "Z">>
LowerCase == <<"a", "b", "c", "d", "e", "f", "g", "h", "i", "j", "k", "l", "m",
               "n", "o", "p", "q", "r", "s", "t", "u", "v", "w", "x", "y", "z">>

LowerChar(c) ==
    IF \E i \in 1..26 : UpperCase[i] = c
    THEN LowerCase[CHOOSE i \in 1..26 : UpperCase[i] = c]
    ELSE c

\* str.lower()
Lower(s) == [i \in 1..Len(s) |-> LowerChar(s[i])]

\* sub in s
Contains(s, sub) ==
    \E i \in 1..(Len(s) - Len(sub) + 1) : SubSeq(s, i, i + Len(sub) - 1) = sub

\* str.splitlines() for text whose only line boundary is "\n"
SplitLines(s) == IF Len(s) = 0 THEN <<>> ELSE Split(s, "\n")

\* last index of the run of digits that starts at i
RECURSIVE DigitRunEnd(_, _)
DigitRunEnd(s, i) ==
    IF i + 1 <= Len(s) /\ IsDigit(s[i + 1]) THEN DigitRunEnd(s, i + 1) ELSE i

\* the pattern -?\d+(?:\.\d+)? can match starting at i
MatchesAt(s, i) ==
    \/ IsDigit(s[i])
    \/ s[i] = "-" /\ i + 1 <= Len(s) /\ IsDigit(s[i + 1])

\* float(re.search(r"(-?\d+(?:\.\d+)?)", field).group(1)), None when no match
SearchNumber(field) ==
    IF \A i \in 1..Len(field) : ~MatchesAt(field, i) THEN None
    ELSE LET i    == CHOOSE j \in 1..Len(field) :
                         MatchesAt(field, j) /\ \A h \in 1..(j - 1) : ~MatchesAt(field, h)
             neg  == field[i] = "-"
             a    == IF neg THEN i + 1 ELSE i
             b    == DigitRunEnd(field, a)
             frac == b + 2 <= Len(field) /\ field[b + 1] = "." /\ IsDigit(field[b + 2])
             c    == IF frac THEN DigitRunEnd(field, b + 2) ELSE b
             digs == SubSeq(field, a, b) \o (IF frac THEN SubSeq(field, b + 2, c) ELSE <<>>)
             k    == IF frac THEN c - (b + 1) ELSE 0
             mag  == DigitsVal(digs)
         IN  Some(Float(IF neg THEN 0 - mag ELSE mag, k))

\* parts[i] of a Python list, i >= 0: IndexError past the end
Item(parts, i) == IF i + 1 <= Len(parts) THEN Ok(parts[i + 1]) ELSE Raised

\* the reading a value contributes under the test -50 < val < 200
Plausible(val) ==
    IF FloatGtInt(val, -50) /\ FloatLtInt(val, 200) THEN <<val>> ELSE <<>>

\* variant: no test of the number of fields
ParseLineUnguarded(line) ==
    IF ~Contains(Lower(line), <<"t", "e", "m", "p">>) THEN Ok(<<>>)
    ELSE LET parts == Split(line, "|")
             field == Item(parts, 1)
         IN  IF ~field.ok THEN Raised
             ELSE LET m == SearchNumber(Strip(field.val))
                  IN  IF m = None THEN Ok(<<>>) ELSE Ok(Plausible(m[1]))

\* the body of the loop over lines: the reading a line contributes, if any,
\* or the exception that leaves the loop
ParseLine(line) ==
    IF ~Contains(Lower(line), <<"t", "e", "m", "p">>) THEN Ok(<<>>)
    ELSE LET parts == Split(line, "|")
         IN  IF Len(parts) < 2 THEN Ok(<<>>)
             ELSE LET field == Item(parts, 1)
                  IN  IF ~field.ok THEN Raised
                      ELSE LET m == SearchNumber(Strip(field.val))
                           IN  IF m = None THEN Ok(<<>>) ELSE Ok(Plausible(m[1]))

RECURSIVE ParseLines(_)
ParseLines(lines) ==
    IF Len(lines) = 0 THEN Ok(<<>>)
    ELSE LET h == ParseLine(Head(lines))
             r == ParseLines(Tail(lines))
         IN  IF ~h.ok \/ ~r.ok THEN Raised ELSE Ok(h.val \o r.val)

parse_sensor_output(output) == ParseLines(SplitLines(Strip(output)))

-----------------------------------------------------------------------------
(* Bounds and inputs *)

Workers == 1..MaxWorkers
Threads == {0} \cup Workers          \* 0 is the main thread

Time(h, m) == [hour |-> h, minute |-> m]

\* "HH:MM" text of a time of day
HHMM(h, m) ==
    <<Digits[(h \div 10) + 1], Digits[(h % 10) + 1], ":",
      Digits[(m \div 10) + 1], Digits[(m % 10) + 1]>>

DefaultRules ==
    <<<<70, 40>>, <<65, 35>>, <<60, 30>>, <<50, 24>>, <<40, 20>>, <<30, 15>>, <<-273, 5>>>>

\* the configuration as written in the source
DefaultConfig ==
    [TEMP_SPEED_RULES    |-> DefaultRules,
     NIGHT_LIMIT_ENABLED |-> TRUE,
     NIGHT_START         |-> HHMM(23, 0),
     NIGHT_END           |-> HHMM(7, 30),
     NIGHT_MAX_PERCENT   |-> 25]

\* edits of the user configuration area
WideRules == <<<<70, 120>>, <<40, 20>>, <<-273, -5>>>>
TallRules == <<<<70, 150>>, <<-273, 120>>>>

Configs ==
    { DefaultConfig,
      [DefaultConfig EXCEPT !.NIGHT_LIMIT_ENABLED = FALSE],
      [DefaultConfig EXCEPT !.TEMP_SPEED_RULES = WideRules],
      [DefaultConfig EXCEPT !.TEMP_SPEED_RULES = TallRules],
      [DefaultConfig EXCEPT !.NIGHT_START = <<"2", "3", "0", "0">>],
      [DefaultConfig EXCEPT !.NIGHT_END = <<"7", ":", "x", "x">>,
                            !.NIGHT_LIMIT_ENABLED = FALSE] }

\* what `ipmitool sensor` prints
SensorTexts ==
    { <<"C", "P", "U", " ", "T", "e", "m", "p", "|", "4", "5", ".", "2", "\n",
        "S", "y", "s", " ", "T", "e", "m", "p", "|", "7", "1", ".", "0", "\n",
        "P", "C", "H", " ", "T", "e", "m", "p", "|", "6", "0", ".", "5">>,
      <<"C", "P", "U", " ", "T", "e", "m", "p", " ", "|", " ", "2", "5", ".",
        "0", "0", "0", " ", "|", " ", "d", "e", "g", "r", "e", "e", "s", " ",
        "C", "\n">>,
      <<"F", "A", "N", "1", "|", "3", "0", "0", "0", "\n",
        "C", "P", "U", " ", "T", "e", "m", "p", "|", "n", "a", "\n",
        "P", "C", "H", " ", "T", "e", "m", "p", "|", "2", "5", "0">> }

\* values datetime.now() takes
Times == { Time(14, 0), Time(23, 30) }

\* return codes of an ipmitool run (1 also stands for a timeout)
ReturnCodes == {0, 1}

-----------------------------------------------------------------------------
(* Control cycle: auto_config *)

Frame(pc, temps, now, final, cmds, lastBefore) ==
    [pc |-> pc, temps |-> temps, now |-> now, final |-> final,
     cmds |-> cmds, lastBefore |-> lastBefore]

IdleFrame == Frame("idle", <<>>, None, None, <<>>, None)

\* entry of auto_config
NewFrame == Frame("get_temps", <<>>, None, None, <<>>, _last_set_speed)

NoCycle ==
    [outcome |-> "none", thread |-> 0, temps |-> <<>>, now |-> None,
     final |-> None, cmds |-> <<>>, lastBefore |-> None, lastAfter |-> None]

\* what is kept of the cycle before the latest one
Brief(s) ==
    [outcome |-> s.outcome, final |-> s.final, cmds |-> s.cmds,
     lastBefore |-> s.lastBefore]

Summary(outcome, t, temps, now, final, cmds, lastAfter) ==
    [outcome |-> outcome, thread |-> t, temps |-> temps, now |-> now,
     final |-> final, cmds |-> cmds, lastBefore |-> frame[t].lastBefore,
     lastAfter |-> lastAfter]

SensorCmd(rc) == [op |-> "sensor", payload |-> <<>>, rc |-> rc]
\* variant: the mode byte of enable_auto
DisableAutoCmdModeAuto(rc) == [op |-> "enable_auto", payload |-> <<>>, rc |-> rc]
DisableAutoCmd(rc) == [op |-> "disable_auto", payload |-> <<>>, rc |-> rc]
SetSpeedCmd(hex, rc) == [op |-> "set_speed", payload |-> hex, rc |-> rc]

\* parse_sensor_output on each sample output, evaluated once
SensorReadings == [stdout \in SensorTexts |-> parse_sensor_output(stdout)]

\* variant: the status of the sensor call is not looked at
get_temps_any_status(rc, stdout) == SensorReadings[stdout]

\* get_temps: one sensor call; an error status gives no readings
get_temps(rc, stdout) ==
    IF rc # 0 THEN Ok(<<>>) ELSE SensorReadings[stdout]

\* variant: every cycle with readings dispatches
unchanged_never(final_speed) == FALSE

\* line 292: the final speed is the one last recorded
unchanged(final_speed) == Some(final_speed) = _last_set_speed

\* variant: the speed is recorded only when the write succeeded
record_speed_on_success(final_speed, rc) ==
    IF rc = 0 THEN Some(final_speed) ELSE _last_set_speed

\* line 297: the speed is recorded whatever status set_speed got (rc)
record_speed(final_speed, rc) == Some(final_speed)

\* The call returns or raises in thread t.  In the main thread a return goes
\* on to scheduler.start() and an exception leaves main(); in a worker the
\* executor logs the exception and the scheduler goes on.
Leave(t, summary) ==
    /\ frame' = [frame EXCEPT ![t] = IdleFrame]
    /\ prev' = summary
    /\ prev2' = Brief(prev)
    /\ mainPc' = IF t # 0 THEN mainPc
                 ELSE IF summary.outcome = "raised" THEN "crashed"
                 ELSE "scheduler"

\* lines 279-294: read the sensors, decide the final speed, compare it with
\* the last one
Decide(t) ==
    /\ frame[t].pc = "get_temps"
    /\ \E rc \in ReturnCodes, stdout \in SensorTexts, now \in Times :
       \E got \in {get_temps(rc, stdout)} :
         LET temps == got.val
             cmds  == <<SensorCmd(rc)>>
         IN  IF ~got.ok
             THEN /\ Leave(t, Summary("raised", t, <<>>, None, None, cmds,
                                      _last_set_speed))
                  /\ UNCHANGED _last_set_speed
             ELSE IF temps = <<>>
             THEN /\ Leave(t, Summary("no_temps", t, temps, None, None, cmds,
                                      _last_set_speed))
                  /\ UNCHANGED _last_set_speed
             ELSE \E current_max \in {max(temps)} :
                  \E base_speed \in {choose_speed_by_temp(current_max)} :
                  \E limited \in {apply_night_limit(base_speed, now)} :
                      IF ~limited.ok
                      THEN /\ Leave(t, Summary("raised", t, temps, Some(now), None,
                                               cmds, _last_set_speed))
                           /\ UNCHANGED _last_set_speed
                      ELSE IF unchanged(limited.val)
                      THEN /\ Leave(t, Summary("skipped", t, temps, Some(now),
                                               Some(limited.val), cmds,
                                               _last_set_speed))
                           /\ UNCHANGED _last_set_speed
                      ELSE /\ frame' = [frame EXCEPT ![t] =
                                  Frame("disable_auto", temps, Some(now),
                                        Some(limited.val), cmds, @.lastBefore)]
                           /\ UNCHANGED <<_last_set_speed, prev, prev2, mainPc>>
    /\ UNCHANGED <<cfg, lastTick, call, ret, exitCmds>>

\* set_speed up to line 168: disable_auto()
DisableAuto(t) ==
    /\ frame[t].pc = "disable_auto"
    /\ \E rc \in ReturnCodes :
         frame' = [frame EXCEPT ![t].pc = "set_speed",
                                ![t].cmds = Append(@, DisableAutoCmd(rc))]
    /\ UNCHANGED <<cfg, _last_set_speed, mainPc, lastTick, prev, prev2, call, ret, exitCmds>>

\* set_speed lines 169-174 and the assignment of line 297
SetSpeed(t) ==
    /\ frame[t].pc = "set_speed"
    /\ \E rc \in ReturnCodes :
         LET final_speed == frame[t].final[1]
             percent     == clamp(final_speed)
             cmds        == Append(frame[t].cmds, SetSpeedCmd(hex_byte(percent), rc))
         IN  /\ _last_set_speed' = record_speed(final_speed, rc)
             /\ Leave(t, Summary("dispatched", t, frame[t].temps, frame[t].now,
                                 frame[t].final, cmds, record_speed(final_speed, rc)))
    /\ UNCHANGED <<cfg, lastTick, call, ret, exitCmds>>

-----------------------------------------------------------------------------
(* Scheduler: the interval job of main *)

Running == {w \in Workers : frame[w].pc # "idle"}

\* variant: the scheduler runs from the start of main, beside the first call
scheduler_started_early == mainPc \in {"auto_config", "scheduler"}

\* lines 317-318: scheduler.start() is called when the first auto_config()
\* has returned; the scheduler takes timer ticks from then until main is left
scheduler_started == mainPc = "scheduler"

\* a timer tick with fewer than max_instances runs of the job in progress:
\* the run goes to the first free thread of the pool
TickRun ==
    /\ scheduler_started
    /\ Cardinality(Running) < max_instances
    /\ \E w \in Workers :
         /\ frame[w].pc = "idle"
         /\ \A v \in Workers : v < w => frame[v].pc # "idle"
         /\ frame' = [frame EXCEPT ![w] = NewFrame]
    /\ lastTick' = "run"
    /\ UNCHANGED <<cfg, _last_set_speed, mainPc, prev, prev2, call, ret, exitCmds>>

\* a timer tick with max_instances runs in progress: the run is skipped
TickSkip ==
    /\ scheduler_started
    /\ Cardinality(Running) >= max_instances
    /\ lastTick' = "skipped"
    /\ UNCHANGED <<cfg, _last_set_speed, mainPc, frame, prev, prev2, call, ret, exitCmds>>

-----------------------------------------------------------------------------
(* Exit: the except clause of main *)

EnableAutoCmd(rc) == [op |-> "enable_auto", payload |-> <<>>, rc |-> rc]

\* variant: enable_auto() of line 321 is called
restore_on_exit_enabled == TRUE

\* line 321: the call of enable_auto() is commented out
restore_on_exit == FALSE

\* KeyboardInterrupt in the main thread, between two gateway calls of the
\* first auto_config() or inside scheduler.start(): the except clause of
\* lines 319-322 runs and main returns.  Nothing shuts the scheduler down;
\* a run already in a pool thread goes on to its end.
Interrupt ==
    /\ mainPc \in {"auto_config", "scheduler"}
    /\ mainPc' = "exited"
    /\ frame' = [frame EXCEPT ![0] = IdleFrame]
    /\ \E rc \in ReturnCodes :
         exitCmds' = IF restore_on_exit THEN <<EnableAutoCmd(rc)>> ELSE <<>>
    /\ UNCHANGED <<cfg, _last_set_speed, lastTick, prev, prev2, call, ret>>

-----------------------------------------------------------------------------
(* Specification of the running program *)

NoCall == [fn |-> "none"]

Init ==
    /\ cfg \in Configs
    /\ _last_set_speed = None
    /\ mainPc = "auto_config"
    /\ frame = [t \in Threads |->
                  IF t = 0 THEN Frame("get_temps", <<>>, None, None, <<>>, None)
                  ELSE IdleFrame]
    /\ lastTick = "none"
    /\ prev = NoCycle
    /\ prev2 = Brief(NoCycle)
    /\ call = NoCall
    /\ ret = None
    /\ exitCmds = <<>>

Next ==
    \/ \E t \in Threads : Decide(t)
    \/ \E t \in Threads : DisableAuto(t)
    \/ \E t \in Threads : SetSpeed(t)
    \/ TickRun
    \/ TickSkip
    \/ Interrupt

Spec == Init /\ [][Next]_vars

-----------------------------------------------------------------------------
(* Specification of the functions: a behaviour applies one function of the *)
(* program once, to inputs drawn from the sets below, under a              *)
(* configuration drawn at the start.                                       *)

\* minutes of the day used as window bounds and as the current time
FnMinutes == {0, 449, 450, 600, 720, 1380, 1439}

TimeOf(n) == Time(n \div 60, n % 60)
TextOf(n) == HHMM(n \div 60, n % 60)

\* night windows (start, end) in minutes of the day
FnWindows == { <<1380, 450>>, <<600, 600>>, <<540, 1020>> }

FnCaps == {0, 25, 120}

FnSpeeds == {-5, 0, 24, 25, 26, 100, 120}

ExampleRules == <<<<70, 40>>, <<60, 30>>, <<40, 20>>, <<30, 15>>, <<-273, 5>>>>

FnRuleTables ==
    { DefaultRules,
      ExampleRules,
      <<<<30, 15>>, <<70, 40>>, <<-273, 5>>>>,      \* not sorted
      <<<<70, 40>>, <<60, 30>>>>,                   \* no catch-all
      <<<<-273, 5>>>> }

FnTemps ==
    { Float(65, 0), Float(25, 0), Float(70, 0), Float(699, 1), Float(710, 1),
      Float(452, 1), Float(-300, 0), Float(3000, 2) }

\* outputs given to parse_sensor_output
TextEmpty ==
    <<>>

TextNoPipe ==
    <<"t", "e", "m", "p">>

TextNoValue ==
    <<"T", "e", "m", "p", "|">>

TextNoNumber ==
    <<"T", "e", "m", "p", "|", "a", "b", "c", "|", "1", "2">>

TextBounds ==
    <<"T", "e", "m", "p", "|", "-", "5", "0", "\n", "T", "E", "M", "P",
      "|", " ", "2", "0", "0", ".", "0">>

TextNearBounds ==
    <<"T", "e", "m", "p", "|", "-", "4", "9", ".", "9", "\n", "t", "E",
      "M", "P", "|", "1", "9", "9", ".", "9", "9", " ", "C">>

TextFirstNumber ==
    <<"c", "p", "u", " ", "t", "e", "m", "p", "|", "x", "-", "1", "2", ".",
      "5", ".", "7", "y">>

TextLaterField ==
    <<"F", "a", "n", "|", "3", "0", "|", "t", "e", "m", "p", " ", "o", "k">>

FnNoiseTexts == {TextEmpty, TextNoPipe, TextNoValue, TextNoNumber, TextBounds}

FnTexts ==
    SensorTexts \cup FnNoiseTexts \cup {TextNearBounds, TextFirstNumber, TextLaterField}

FnConfigs ==
    { [TEMP_SPEED_RULES    |-> r,
       NIGHT_LIMIT_ENABLED |-> en,
       NIGHT_START         |-> TextOf(w[1]),
       NIGHT_END           |-> TextOf(w[2]),
       NIGHT_MAX_PERCENT   |-> cap] :
      r \in FnRuleTables, en \in BOOLEAN, w \in FnWindows, cap \in FnCaps }

FnInit ==
    /\ cfg \in FnConfigs
    /\ _last_set_speed = None
    /\ mainPc = "auto_config"
    /\ frame = [t \in Threads |-> IdleFrame]
    /\ lastTick = "none"
    /\ prev = NoCycle
    /\ prev2 = Brief(NoCycle)
    /\ call = NoCall
    /\ ret = None
    /\ exitCmds = <<>>

FnFrame ==
    UNCHANGED <<cfg, _last_set_speed, mainPc, frame, lastTick, prev, prev2, exitCmds>>

ApplyWindow ==
    /\ call = NoCall
    /\ \E n \in FnMinutes, s \in FnMinutes, e \in FnMinutes :
         /\ call' = [fn |-> "is_in_time_window", now |-> n, start |-> s, end |-> e]
         /\ ret' = is_in_time_window(TimeOf(n), TextOf(s), TextOf(e))
    /\ FnFrame

ApplyNightLimit ==
    /\ call = NoCall
    /\ \E speed \in FnSpeeds, n \in FnMinutes :
         /\ call' = [fn |-> "apply_night_limit", speed |-> speed, now |-> n]
         /\ ret' = apply_night_limit(speed, TimeOf(n))
    /\ FnFrame

ApplyChooseSpeed ==
    /\ call = NoCall
    /\ \E temp \in FnTemps :
         /\ call' = [fn |-> "choose_speed_by_temp", temp |-> temp]
         /\ ret' = choose_speed_by_temp(temp)
    /\ FnFrame

ApplyParse ==
    /\ call = NoCall
    /\ \E text \in FnTexts :
         /\ call' = [fn |-> "parse_sensor_output", text |-> text]
         /\ ret' = parse_sensor_output(text)
    /\ FnFrame

FnNext ==
    \/ ApplyWindow
    \/ ApplyNightLimit
    \/ ApplyChooseSpeed
    \/ ApplyParse

SpecFn == FnInit /\ [][FnNext]_vars

-----------------------------------------------------------------------------
(* Properties *)

Range(f) == {f[i] : i \in DOMAIN f}

Active == {t \in Threads : frame[t].pc # "idle"}

\* number of duty-cycle writes among the gateway calls of a cycle
Writes(cmds) == Cardinality({i \in DOMAIN cmds : cmds[i].op = "set_speed"})

SetSpeedCalls(cmds) == {c \in Range(cmds) : c.op = "set_speed"}

HexDigitVal(c) == (CHOOSE i \in 1..16 : HexDigits[i] = c) - 1

IsHexDigit(c) == \E i \in 1..16 : HexDigits[i] = c

\* the number a payload "0xHH" stands for, -1 for any other text
PayloadVal(p) ==
    IF Len(p) = 4 /\ p[1] = "0" /\ p[2] = "x" /\ IsHexDigit(p[3]) /\ IsHexDigit(p[4])
    THEN 16 * HexDigitVal(p[3]) + HexDigitVal(p[4])
    ELSE -1

InRange(c) == IF c < 0 THEN 0 ELSE IF c > 100 THEN 100 ELSE c

\* start <= now < end on the clock face, the whole day when start = end
InWindow(n, s, e) ==
    \/ s = e
    \/ s < e /\ s <= n /\ n < e
    \/ s > e /\ (n >= s \/ n < e)

\* the configured window, in minutes, contains minute n
InConfiguredWindow(n) ==
    \E w \in FnWindows :
        /\ cfg.NIGHT_START = TextOf(w[1])
        /\ cfg.NIGHT_END = TextOf(w[2])
        /\ InWindow(n, w[1], w[2])

Capping(speed, n) ==
    cfg.NIGHT_LIMIT_ENABLED /\ InConfiguredWindow(n) /\ speed > cfg.NIGHT_MAX_PERCENT

\* percentage of the first rule, in the given order, whose bound is <= T;
\* of the last rule when there is none
PolicyPct(T, rules) ==
    IF \E i \in DOMAIN rules : FloatGeInt(T, rules[i][1])
    THEN rules[CHOOSE i \in DOMAIN rules :
                   /\ FloatGeInt(T, rules[i][1])
                   /\ \A j \in 1..(i - 1) : ~FloatGeInt(T, rules[j][1])][2]
    ELSE rules[Len(rules)][2]

\* a largest reading
Largest(temps) == CHOOSE x \in Range(temps) : \A y \in Range(temps) : ~FloatGt(y, x)

MinuteOf(now) == now.hour * 60 + now.minute

\* C1: two consecutive cycles that both compute the same final speed issue
\* at most one duty-cycle write between them.
C1_DispatchIdempotence ==
    (prev2.final # None /\ prev.final = prev2.final)
        => Writes(prev2.cmds) + Writes(prev.cmds) <= 1

C1_Witness ==
    /\ prev2.final # None
    /\ prev.final = prev2.final
    /\ prev2.lastBefore # None
    /\ Writes(prev2.cmds) = 1
    /\ Writes(prev.cmds) = 0

\* C2: at most one cycle is executing; no tick is taken and no worker runs
\* while the start-up cycle is executing, and a tick that finds a cycle
\* running starts none.
C2_OverlapPrevention ==
    /\ Cardinality(Active) <= 1
    /\ frame[0].pc # "idle" => (lastTick = "none" /\ Running = {})

C2_Witness ==
    /\ lastTick = "skipped"
    /\ Cardinality(Running) = 1
    /\ \E w \in Running : frame[w].pc = "set_speed"

\* C3: a cycle whose sensor call failed or whose reading list is empty
\* issues only the sensor call and leaves _last_set_speed as it found it.
C3_HoldLastState ==
    (prev.outcome # "none" /\ (prev.temps = <<>> \/ prev.cmds[1].rc # 0))
        => /\ \A c \in Range(prev.cmds) : c.op = "sensor"
           /\ prev.lastAfter = prev.lastBefore
           /\ _last_set_speed = prev.lastBefore

C3_Witness ==
    /\ prev.outcome = "no_temps"
    /\ prev.cmds[1].rc = 0
    /\ prev.lastBefore # None
    /\ prev2.outcome = "no_temps"
    /\ prev2.cmds[1].rc # 0

\* C4: the payload of every duty-cycle write is the candidate speed brought
\* into 0..100: 0 below 0, 100 above 100, the candidate otherwise.
C4_Clamping ==
    \A c \in SetSpeedCalls(prev.cmds) :
        /\ PayloadVal(c.payload) = InRange(prev.final[1])
        /\ PayloadVal(c.payload) \in 0..100

C4_Witness ==
    /\ prev.outcome = "dispatched" /\ prev.final[1] > 100
    /\ prev2.outcome = "dispatched" /\ prev2.final[1] < 0
    /\ \A c \in SetSpeedCalls(prev.cmds) : c.payload = <<"0", "x", "6", "4">>

\* C8: a cycle that dispatches sends the policy percentage of its largest
\* reading, capped by the night limit and brought into 0..100; readings
\* 45.2, 71.0, 60.5 under the source's configuration send 40 (0x28) by day
\* and 25 (0x19) by night.
C8_EndToEnd ==
    prev.outcome = "dispatched" =>
        LET base   == PolicyPct(Largest(prev.temps), cfg.TEMP_SPEED_RULES)
            capped == IF Capping(base, MinuteOf(prev.now[1]))
                      THEN cfg.NIGHT_MAX_PERCENT ELSE base
        IN  /\ Writes(prev.cmds) = 1
            /\ \A c \in SetSpeedCalls(prev.cmds) :
                   /\ PayloadVal(c.payload) = InRange(capped)
                   /\ (cfg = DefaultConfig
                       /\ prev.temps = <<Float(452, 1), Float(710, 1), Float(605, 1)>>)
                      => c.payload = IF prev.now[1] = Time(14, 0)
                                     THEN <<"0", "x", "2", "8">>
                                     ELSE <<"0", "x", "1", "9">>

C8_Witness ==
    /\ cfg = DefaultConfig
    /\ prev.outcome = "dispatched"
    /\ prev.temps = <<Float(452, 1), Float(710, 1), Float(605, 1)>>
    /\ prev.now[1] = Time(23, 30)
    /\ prev2.outcome = "dispatched"
    /\ prev2.final = Some(40)

SetFailed(cmds) == \E c \in SetSpeedCalls(cmds) : c.rc # 0

\* C9: after a cycle whose duty-cycle write for speed v failed, the next
\* cycle that computes v again issues a duty-cycle write for v.
C9_RetryByNextTick ==
    (prev2.outcome = "dispatched" /\ SetFailed(prev2.cmds) /\ prev.final = prev2.final)
        => \E c \in SetSpeedCalls(prev.cmds) :
               PayloadVal(c.payload) = InRange(prev2.final[1])

\* text that is exactly two colon-separated runs of digits
WellFormedTime(s) ==
    \E i \in 1..Len(s) :
        /\ s[i] = ":"
        /\ \A j \in 1..Len(s) : s[j] = ":" => j = i
        /\ AllDigits(SubSeq(s, 1, i - 1))
        /\ AllDigits(SubSeq(s, i + 1, Len(s)))

BadNightWindow ==
    /\ cfg.NIGHT_LIMIT_ENABLED
    /\ ~WellFormedTime(cfg.NIGHT_START) \/ ~WellFormedTime(cfg.NIGHT_END)

\* C10: with a malformed night-window bound and the limit enabled, the
\* format error is fatal at start-up: it is never raised inside a scheduled
\* cycle with the scheduler still running.
C10_FatalAtStartup ==
    BadNightWindow =>
        ~(mainPc = "scheduler" /\ prev.outcome = "raised" /\ prev.thread # 0)

C7_SpeedPolicy ==
    call.fn = "choose_speed_by_temp" =>
        /\ ret = PolicyPct(call.temp, cfg.TEMP_SPEED_RULES)
        /\ cfg.TEMP_SPEED_RULES = ExampleRules =>
               /\ call.temp = Float(65, 0) => ret = 30
               /\ call.temp = Float(25, 0) => ret = 5
               /\ call.temp = Float(70, 0) => ret = 40
        /\ cfg.TEMP_SPEED_RULES = <<<<30, 15>>, <<70, 40>>, <<-273, 5>>>> =>
               (call.temp = Float(710, 1) => ret = 15)

C7_Witness ==
    /\ call.fn = "choose_speed_by_temp"
    /\ cfg.TEMP_SPEED_RULES = <<<<70, 40>>, <<60, 30>>>>
    /\ call.temp = Float(25, 0)
    /\ ret = 30

\* C5 as stated: the result is <= B, it equals C exactly when the limit is
\* enabled, the time is inside the window and B > C, and it equals B when
\* the limit is disabled or the time is outside the window.
C5_AsStated ==
    (call.fn = "apply_night_limit" /\ ret.ok) =>
        /\ ret.val <= call.speed
        /\ ret.val = cfg.NIGHT_MAX_PERCENT <=> Capping(call.speed, call.now)
        /\ (~cfg.NIGHT_LIMIT_ENABLED \/ ~InConfiguredWindow(call.now))
               => ret.val = call.speed

\* C5: the result is <= B; it is C when the limit is enabled, the time is
\* inside the window and B > C, and it is B in every other case.
C5_NightCap ==
    (call.fn = "apply_night_limit" /\ ret.ok) =>
        /\ ret.val <= call.speed
        /\ Capping(call.speed, call.now) => ret.val = cfg.NIGHT_MAX_PERCENT
        /\ ~Capping(call.speed, call.now) => ret.val = call.speed

C5_Witness ==
    /\ call.fn = "apply_night_limit"
    /\ cfg.NIGHT_LIMIT_ENABLED
    /\ cfg.NIGHT_START = TextOf(1380) /\ cfg.NIGHT_END = TextOf(450)
    /\ call.now = 449
    /\ call.speed = 26 /\ cfg.NIGHT_MAX_PERCENT = 25
    /\ ret = Ok(25)


AllCmds ==
    Range(exitCmds) \cup Range(prev.cmds) \cup Range(prev2.cmds)
        \cup UNION {Range(frame[t].cmds) : t \in Threads}

\* C11: the main thread runs one cycle, at the start; a timer tick is taken
\* and a scheduled cycle runs only when that cycle is over.
C11_StartupOrdering ==
    /\ [](mainPc = "auto_config" <=> frame[0].pc # "idle")
    /\ []((lastTick # "none" \/ Running # {} \/ prev.thread # 0)
             => mainPc \in {"scheduler", "exited"})
    /\ [][mainPc # "auto_config" => mainPc' # "auto_config"]_vars

C11_Witness ==
    /\ lastTick = "run"
    /\ Running # {}
    /\ prev.thread = 0
    /\ prev.outcome = "dispatched"
    /\ prev2.outcome = "none"

\* C12: once main has taken the interrupt no tick is taken and no cycle is
\* started, main stays left, and no enable-auto call is ever made.
C12_Shutdown ==
    /\ [](\A c \in AllCmds : c.op # "enable_auto")
    /\ [][mainPc = "exited" =>
             /\ mainPc' = "exited"
             /\ lastTick' = lastTick
             /\ \A t \in Threads : frame[t].pc = "idle" => frame'[t].pc = "idle"]_vars

C12_Witness ==
    /\ mainPc = "exited"
    /\ prev.thread # 0
    /\ prev.outcome = "dispatched"
    /\ Running = {}
    /\ lastTick = "skipped"


\* C13: parse_sensor_output returns for every text, every reading it
\* returns is above -50 and below 200, and a text without a usable line
\* gives no reading.
C13_ParserRobustness ==
    call.fn = "parse_sensor_output" =>
        /\ ret.ok
        /\ \A v \in Range(ret.val) : FloatGtInt(v, -50) /\ FloatLtInt(v, 200)
        /\ call.text \in FnNoiseTexts => ret.val = <<>>
        /\ call.text = TextNearBounds => ret.val = <<Float(-499, 1), Float(19999, 2)>>

C13_Witness ==
    /\ call.fn = "parse_sensor_output"
    /\ call.text = TextBounds
    /\ ret = Ok(<<>>)

\* lines of a text whose first pipe-delimited field contains "temp"
NamedTempLines(text) ==
    LET lines == SplitLines(Strip(text))
    IN  {i \in DOMAIN lines :
            Contains(Lower(Split(lines[i], "|")[1]), <<"t", "e", "m", "p">>)}

\* C18: only a line whose sensor-name field contains "temp" contributes a
\* reading, so there are no more readings than such lines.
C18_NameFilter ==
    (call.fn = "parse_sensor_output" /\ ret.ok) =>
        Len(ret.val) <= Cardinality(NamedTempLines(call.text))


\* both of the last two cycles computed a final speed
BothComputed == prev2.final # None /\ prev.final # None

\* C14: two consecutive cycles whose candidates are the same once brought
\* into 0..100 (120 then 150) issue at most one duty-cycle write.
C14_ClampedChangeDetection ==
    (BothComputed /\ InRange(prev.final[1]) = InRange(prev2.final[1]))
        => Writes(prev2.cmds) + Writes(prev.cmds) <= 1

\* C15: _last_set_speed changes in a cycle exactly when the cycle called
\* set_speed; it is then the speed set_speed was called with, whatever the
\* status of the write; once set it is never None again.
C15_Bookkeeping ==
    /\ prev.outcome = "none" => _last_set_speed = None
    /\ prev.outcome # "none" =>
           /\ prev.lastAfter # prev.lastBefore <=> Writes(prev.cmds) >= 1
           /\ Writes(prev.cmds) >= 1 =>
                  (Writes(prev.cmds) = 1 /\ prev.lastAfter = prev.final)
           /\ prev.final # None /\ prev.final[1] \in MIN_PERCENT..MAX_PERCENT =>
                  \A c \in SetSpeedCalls(prev.cmds) :
                      prev.lastAfter = Some(PayloadVal(c.payload))
           /\ prev.lastBefore # None => prev.lastAfter # None
           /\ _last_set_speed = prev.lastAfter

C15_Witness ==
    /\ prev.outcome = "dispatched"
    /\ SetFailed(prev.cmds)
    /\ prev.lastBefore # None
    /\ prev.lastAfter = prev.final
    /\ _last_set_speed = prev.final

CycleCmds == {prev.cmds, prev2.cmds} \cup {frame[t].cmds : t \in Threads}

\* C16: a duty-cycle write comes right after a disable-auto call of the same
\* cycle, and a disable-auto call, failed or not, is followed by the write.
C16_TwoStepDispatch ==
    /\ \A cmds \in CycleCmds : \A i \in DOMAIN cmds :
           cmds[i].op = "set_speed" => (i > 1 /\ cmds[i - 1].op = "disable_auto")
    /\ \A i \in DOMAIN prev.cmds :
           prev.cmds[i].op = "disable_auto"
               => (i < Len(prev.cmds) /\ prev.cmds[i + 1].op = "set_speed")
    /\ \A t \in Threads : \A i \in DOMAIN frame[t].cmds :
           frame[t].cmds[i].op = "disable_auto"
               => (i = Len(frame[t].cmds) /\ frame[t].pc = "set_speed")

C16_Witness ==
    /\ prev.outcome = "dispatched"
    /\ Len(prev.cmds) = 3
    /\ prev.cmds[2].op = "disable_auto" /\ prev.cmds[2].rc # 0
    /\ prev.cmds[3].op = "set_speed" /\ prev.cmds[3].rc = 0

CallOrder == <<"sensor", "disable_auto", "set_speed">>

InCallOrder(cmds) ==
    /\ Len(cmds) <= Len(CallOrder)
    /\ \A i \in DOMAIN cmds : cmds[i].op = CallOrder[i]

\* C17: a cycle makes the sensor call first and at most the three calls
\* sensor, disable-auto, set-speed in this order; after a sensor call with a
\* non-zero status it has no readings and makes no other call.
C17_CallsPerCycle ==
    /\ \A cmds \in CycleCmds : InCallOrder(cmds)
    /\ prev.outcome # "none" =>
           /\ Len(prev.cmds) >= 1
           /\ prev.cmds[1].rc # 0 => (Len(prev.cmds) = 1 /\ prev.temps = <<>>)

C17_Witness ==
    /\ prev.outcome = "no_temps"
    /\ prev.cmds[1].rc # 0
    /\ Len(prev2.cmds) = 3
    /\ prev.thread # 0

\* C19: with the limit enabled and the cap in 0..100, a write of a cycle
\* whose time is inside the window carries at most the cap; and when the
\* cycle before left the policy speed uncapped as the last speed, a cycle
\* inside the window with the same policy speed above the cap writes the cap.
C19_NightCeiling ==
    (prev.now # None /\ cfg.NIGHT_LIMIT_ENABLED /\ cfg.NIGHT_MAX_PERCENT \in 0..100
       /\ InConfiguredWindow(MinuteOf(prev.now[1])))
    => LET base == PolicyPct(Largest(prev.temps), cfg.TEMP_SPEED_RULES)
       IN  /\ \A c \in SetSpeedCalls(prev.cmds) :
                  PayloadVal(c.payload) \in 0..cfg.NIGHT_MAX_PERCENT
           /\ (base > cfg.NIGHT_MAX_PERCENT /\ prev2.final = Some(base)
                 /\ prev.lastBefore = Some(base))
              => /\ prev.outcome = "dispatched"
                 /\ \A c \in SetSpeedCalls(prev.cmds) :
                        PayloadVal(c.payload) = cfg.NIGHT_MAX_PERCENT

C19_Witness ==
    /\ cfg = DefaultConfig
    /\ prev2.final = Some(40)
    /\ prev.lastBefore = Some(40)
    /\ prev.now = Some(Time(23, 30))
    /\ prev.temps = <<Float(452, 1), Float(710, 1), Float(605, 1)>>
    /\ \E c \in SetSpeedCalls(prev.cmds) : c.payload = <<"0", "x", "1", "9">>

\* C20: while _last_set_speed is None, a cycle with readings makes the
\* disable-auto call and the duty-cycle write, whatever its final speed.
C20_FirstCycleDispatches ==
    (prev.outcome # "none" /\ prev.lastBefore = None /\ prev.temps # <<>>)
        => /\ prev.outcome = "dispatched"
           /\ Len(prev.cmds) = 3
           /\ InCallOrder(prev.cmds)

====
